---- MODULE Spec2Model ----
(***************************************************************************)
(* PDF service: the Express handler of src/index.ts, the wkhtmltopdf       *)
(* backend of src/pdf-generator.ts and the Puppeteer backend of            *)
(* pdf-generator-puppeteer.ts, as a state machine.                         *)
(*                                                                         *)
(* Conventions.                                                            *)
(*   - A JavaScript string is a TLA+ string; the JavaScript values         *)
(*     undefined and null are the markers Undefined and Null.              *)
(*   - A CSS length "2.12cm" is the integer 212 (hundredths of a cm); an   *)
(*     optional length is a sequence of at most one integer (<<>> is       *)
(*     undefined), and so is the optional `margin` object.                 *)
(*   - Markup built with a template literal is the record of the values    *)
(*     interpolated into it: two markups are equal exactly when every      *)
(*     interpolated value is.                                              *)
(*   - A Buffer is the sequence of its bytes.                              *)
(*   - One action is one run of JavaScript between two suspension points   *)
(*     (Node runs callbacks and their microtasks to completion).           *)
(***************************************************************************)
EXTENDS Integers, Sequences, FiniteSets, TLC

\* ---------------------------------------------------------------- bounds
NumRequests == 2
MaxMs == 1
MaxDelays == 1

\* ------------------------------------------------------ program constants
CleanupDelay == 10000
DefaultTop == 212
DefaultSide == 150
LogoTopWk == 300
LogoTopPp == 423

\* ------------------------------------------------------ JavaScript values
Undefined == "undefined"
Null == "null"

\* ToBoolean of the string-typed values the model uses.
Truthy(v) == v \notin {Undefined, Null, ""}

\* A thrown value: an Error with a message, or something that is no Error.
Err(m) == [isError |-> TRUE, message |-> m]
NonError == [isError |-> FALSE, message |-> Undefined]
NoError == [isError |-> FALSE, message |-> "none"]

\* error instanceof Error ? error.message : 'Unknown error'
ErrorText(e) == IF e.isError THEN e.message ELSE "Unknown error"

\* new Error(`Failed to generate PDF: ${...}`) in the catch of generatePdf
Wrap(e) == Err("Failed to generate PDF: " \o ErrorText(e))

\* ------------------------------------------------------------ composition
DefaultMargin ==
  [top |-> <<DefaultTop>>, right |-> <<DefaultSide>>,
   bottom |-> <<DefaultTop>>, left |-> <<DefaultSide>>]

\* Destructuring defaults of generatePdf: a default applies to undefined only.
FormatOf(o) == IF o.format = Undefined THEN "A4" ELSE o.format
MarginOf(o) == IF o.margin = <<>> THEN DefaultMargin ELSE o.margin[1]
LogoPositionOf(o) == IF o.logoPosition = Undefined THEN "LEFT" ELSE o.logoPosition

\* defaultCss: '' unless styles.css exists; stylesFile is <<>> or <<text>>.
DefaultCss(stylesFile) == IF stylesFile = <<>> THEN "" ELSE stylesFile[1]

\* `${defaultCss}\n${css || ''}`
FinalCssCallerFirst(stylesFile, css) ==
  <<IF Truthy(css) THEN css ELSE "", "\n", DefaultCss(stylesFile)>>
FinalCss(stylesFile, css) ==
  <<DefaultCss(stylesFile), "\n", IF Truthy(css) THEN css ELSE "">>

\* logoPositionMap[logoPosition]: an own key, a key inherited from
\* Object.prototype (a function, which is truthy), or undefined.
LogoPositionMap ==
  [LEFT |-> "left", CENTER |-> "center", RIGHT |-> "right", FULL_WIDTH |-> "center"]

ObjectPrototypeKeys == {"constructor"}

LogoPositionLookup(p) ==
  IF p \in DOMAIN LogoPositionMap THEN LogoPositionMap[p]
  ELSE IF p \in ObjectPrototypeKeys THEN "function Object() { [native code] }"
  ELSE Undefined

\* logoPositionMap[logoPosition] || 'left'
AlignKeyword(p) ==
  IF Truthy(LogoPositionLookup(p)) THEN LogoPositionLookup(p) ELSE "left"

\* template({content, css, logoUrl, logoPosition}): the fields handed to the
\* Handlebars template determine its output.
TemplateFields(o, stylesFile) ==
  [content |-> o.html,
   css |-> FinalCss(stylesFile, o.css),
   logoUrl |-> IF Truthy(o.logoUrl) THEN o.logoUrl ELSE Null,
   logoPosition |-> AlignKeyword(LogoPositionOf(o))]

\* The header document written to the temporary file.
HeaderHtml(o) ==
  [textAlign |-> AlignKeyword(LogoPositionOf(o)),
   imgWidth |-> "120px",
   imgMaxWidth |-> "100%",
   imgSrc |-> o.logoUrl]

\* marginTop: logoUrl ? '3cm' : margin.top
WkTopMarginNoLogoRule(o) == MarginOf(o).top
WkTopMargin(o) == IF Truthy(o.logoUrl) THEN <<LogoTopWk>> ELSE MarginOf(o).top

\* wkhtmlOptions before the header is attached.
WkhtmlOptions(o) ==
  [pageSize |-> FormatOf(o),
   marginTop |-> WkTopMargin(o),
   marginRight |-> MarginOf(o).right,
   marginBottom |-> MarginOf(o).bottom,
   marginLeft |-> MarginOf(o).left,
   encoding |-> "UTF-8",
   footerCenter |-> "Pagina [page] de [toPage]",
   headerHtml |-> <<>>,
   headerSpacing |-> <<>>]

\* wkhtmlOptions.headerHtml = `file:///${headerPath}`; headerSpacing = 5.
\* A path temp/header-<t>.html is the timestamp t.
WithHeader(options, path) ==
  [options EXCEPT !.headerHtml = <<path>>, !.headerSpacing = <<5>>]

\* generateLogoHtml(logoUrl, position): a switch without a default case.
GenerateLogoHtml(logoUrl, position) ==
  [alignStyle |->
     CASE position = "LEFT" -> "text-align: left;"
       [] position = "CENTER" -> "text-align: center;"
       [] position = "RIGHT" -> "text-align: right;"
       [] position = "FULL_WIDTH" -> "text-align: center;"
       [] OTHER -> "",
   logoWidth |-> IF position = "FULL_WIDTH" THEN "100%" ELSE "120px",
   maxHeight |-> IF position = "FULL_WIDTH" THEN "80px" ELSE "60px",
   imgSrc |-> logoUrl]

\* logoHtml = logoUrl ? generateLogoHtml(logoUrl, logoPosition) : ''
LogoHtml(o) ==
  IF Truthy(o.logoUrl)
    THEN <<GenerateLogoHtml(o.logoUrl, LogoPositionOf(o))>>
    ELSE <<>>

\* fullHtml of the Puppeteer backend.
PpFullHtml(o, stylesFile) ==
  [css |-> FinalCss(stylesFile, o.css), logo |-> LogoHtml(o), content |-> o.html]

\* top: logoUrl ? '4.23cm' : margin.top
PpTopMargin(o) == IF Truthy(o.logoUrl) THEN <<LogoTopPp>> ELSE MarginOf(o).top

\* The options of page.pdf.
PdfOptions(o) ==
  [format |-> FormatOf(o),
   marginTop |-> PpTopMargin(o),
   marginRight |-> MarginOf(o).right,
   marginBottom |-> MarginOf(o).bottom,
   marginLeft |-> MarginOf(o).left,
   printBackground |-> TRUE,
   displayHeaderFooter |-> TRUE,
   headerTemplate |-> "<div></div>"]

\* The options object the handler of index.ts builds from a request body.
HandlerOptions(b) ==
  [html |-> b.html, css |-> b.css, format |-> "A4",
   margin |-> <<DefaultMargin>>,
   logoUrl |-> b.logoUrl, logoPosition |-> b.logoPosition]


\* ----------------------------------------------------------------- inputs
Requests == 1..NumRequests
MaxChunks == 2

HtmlValues == {Undefined, "", "<p>y</p>"}
CssValues == {Undefined}
LogoUrlValues == {Undefined, "https://example.com/logo.png"}
LogoPositionValues == {Undefined}

\* styles.css is missing, or has some text.
StylesFiles == {<<>>, <<"p{margin:0}">>}

\* The JSON bodies a client posts.
Bodies ==
  [html : HtmlValues, css : CssValues,
   logoUrl : LogoUrlValues, logoPosition : LogoPositionValues]

NoBody ==
  [html |-> "none", css |-> "none", logoUrl |-> "none", logoPosition |-> "none"]

\* The values thrown at a place a call can fail: Node's fs and Handlebars
\* throw Error objects; what a library's promise rejects with, or an 'error'
\* event carries, need not be an Error.
ThrownAt(stage) ==
  IF stage \in {"compose", "mkdir", "write"}
    THEN {Err(stage \o " failed")}
    ELSE {Err(stage \o " failed"), NonError}

\* The k-th chunk the renderer's stream delivers: k bytes of value k, so that
\* chunks differ in length and in content.
Chunk(k) == [i \in 1..k |-> k]

ConcatLastOnly(cs) == IF cs = <<>> THEN <<>> ELSE cs[Len(cs)]
RECURSIVE Concat(_)
\* Buffer.concat(chunks)
Concat(chunks) ==
  IF chunks = <<>> THEN <<>> ELSE Head(chunks) \o Concat(Tail(chunks))

\* The bytes page.pdf resolves with: the renderer's first n chunks.
PdfBytes(n) == Concat([k \in 1..n |-> Chunk(k)])

\* -------------------------------------------------------------- responses
NoJson == [error |-> "none", message |-> "none"]
NoResponse ==
  [status |-> 0, contentType |-> "none", contentLength |-> <<>>,
   json |-> NoJson, bytes |-> <<>>]

\* res.status(400).json({ error: 'HTML is required' })
BadRequest ==
  [status |-> 400, contentType |-> "application/json", contentLength |-> <<>>,
   json |-> [error |-> "HTML is required", message |-> Undefined],
   bytes |-> <<>>]

\* setHeader('Content-Type'), setHeader('Content-Length'), res.send(pdfBuffer)
PdfResponseChunkCount(pdfBuffer) ==
  [status |-> 200, contentType |-> "application/pdf",
   contentLength |-> <<IF pdfBuffer = <<>> THEN 0 ELSE 1>>,
   json |-> NoJson, bytes |-> pdfBuffer]
PdfResponse(pdfBuffer) ==
  [status |-> 200, contentType |-> "application/pdf",
   contentLength |-> <<Len(pdfBuffer)>>,
   json |-> NoJson, bytes |-> pdfBuffer]

\* res.status(500).json({ error: 'Failed to generate PDF', message: ... })
ErrorResponse(error) ==
  [status |-> 500, contentType |-> "application/json", contentLength |-> <<>>,
   json |-> [error |-> "Failed to generate PDF", message |-> ErrorText(error)],
   bytes |-> <<>>]

\* res.json({ status: 'ok', service: 'pdf-service' })
HealthPayload == [status |-> 200, json |-> [status |-> "ok", service |-> "pdf-service"]]
NoHealth == [status |-> 0, json |-> [status |-> "none", service |-> "none"]]

\* What a generatePdf call settled with.
Pending == [kind |-> "pending", bytes |-> <<>>, error |-> NoError, cause |-> NoError]
Resolved(bytes) ==
  [kind |-> "resolved", bytes |-> bytes, error |-> NoError, cause |-> NoError]
\* error is the value the call rejects with, cause the value thrown inside it.
Rejected(error, cause) ==
  [kind |-> "rejected", bytes |-> <<>>, error |-> error, cause |-> cause]

\* What the renderer was handed.
NotRendered == [fullHtml |-> <<>>, options |-> <<>>]

\* ------------------------------------------------------------------ state
VARIABLES
  backend,        \* the module index.ts imports generatePdf from
  stylesFile,     \* styles.css: <<>> when missing, else <<its text>>
  now,            \* Date.now(), in ms
  tempDirExists,  \* fs.existsSync(tempDir)
  files,          \* the header files on disk: records [path, content]
  pc,             \* per request: where its handler is suspended
  body,           \* per request: req.body
  invoked,        \* per request: the number of generatePdf calls
  rendered,       \* per request: the markup and options given to the renderer
  chunks,         \* per request: the chunks array of the stream promise
  stream,         \* per request: the renderer's stream: none, open, ended,
                  \*   errored, or closed (both 'end' and 'error' emitted)
  headerPath,     \* per request: <<>> or <<the header path written>>
  timer,          \* per request: the cleanup timer, none / pending / fired
  outcome,        \* per request: what generatePdf settled with
  response,       \* per request: the HTTP response sent
  health,         \* the last response of GET /health
  browsers,       \* the browser processes ever launched
  browser,        \* per request: the local variable browser, 0 is null
  finallyWith,    \* per request: the completion the finally block holds
  opts,           \* composition check: the options under test
  composed        \* composition check: the result of composing opts

serviceVars ==
  <<backend, stylesFile, now, tempDirExists, files, pc, body, invoked, rendered,
    chunks, stream, headerPath, timer, outcome, response, health, browsers,
    browser, finallyWith>>
composeVars == <<opts, composed>>
vars == <<serviceVars, composeVars>>

NoOpts ==
  [html |-> "none", css |-> "none", format |-> "none", margin |-> <<>>,
   logoUrl |-> "none", logoPosition |-> "none"]
NoComposed ==
  [by |-> "none", fullHtml |-> <<>>, header |-> <<>>, options |-> <<>>,
   tempDir |-> FALSE, timer |-> "none"]

ServiceInit ==
  /\ backend \in {"wkhtmltopdf", "puppeteer"}
  /\ stylesFile \in StylesFiles
  /\ now = 0
  /\ tempDirExists = FALSE
  /\ files = {}
  /\ pc = [r \in Requests |-> "idle"]
  /\ body = [r \in Requests |-> NoBody]
  /\ invoked = [r \in Requests |-> 0]
  /\ rendered = [r \in Requests |-> NotRendered]
  /\ chunks = [r \in Requests |-> <<>>]
  /\ stream = [r \in Requests |-> "none"]
  /\ headerPath = [r \in Requests |-> <<>>]
  /\ timer = [r \in Requests |-> "none"]
  /\ outcome = [r \in Requests |-> Pending]
  /\ response = [r \in Requests |-> NoResponse]
  /\ health = NoHealth
  /\ browsers = <<>>
  /\ browser = [r \in Requests |-> 0]
  /\ finallyWith = [r \in Requests |-> Pending]

Init ==
  /\ ServiceInit
  /\ opts = NoOpts
  /\ composed = NoComposed


\* ------------------------------------------------------------- file system
\* fs.existsSync(path)
Exists(fs, path) == \E f \in fs : f.path = path

\* fs.writeFileSync(path, content): creates the file or replaces its content.
WriteFile(fs, path, content) ==
  {f \in fs : f.path # path} \cup {[path |-> path, content |-> content]}

\* if (fs.existsSync(path)) fs.unlinkSync(path)
UnlinkIfExists(fs, path) == {f \in fs : f.path # path}

\* `header-${Date.now()}.html`: the path is the millisecond timestamp.
HeaderPathAt(t) == t

\* ------------------------------------------------------------ the handler
\* if (!html) of index.ts
RejectsNothing(html) == FALSE
Rejects(html) == ~Truthy(html)

\* The handler after `await generatePdf(...)`: the PDF response when the call
\* resolved, the catch block's error response when it rejected.
AfterAwaitUnknown(out) ==
  IF out.kind = "resolved" THEN PdfResponse(out.bytes)
  ELSE [ErrorResponse(out.error) EXCEPT !.json.message = "Unknown error"]
AfterAwait(out) ==
  IF out.kind = "resolved" THEN PdfResponse(out.bytes) ELSE ErrorResponse(out.error)

\* Requests are numbered in the order they arrive.
Arrives(r) == pc[r] = "idle" /\ (r > 1 => pc[r - 1] # "idle")

\* A promise settles once: resolve and reject of a settled promise do nothing.
PromiseLastWins(current, new) == new
PromiseSettle(current, new) == IF current.kind = "pending" THEN new ELSE current

\* resolve or reject is called with out for the call of request r; when that
\* settles the call, the handler suspended on it resumes and responds.
Settle(r, out) ==
  LET settled == PromiseSettle(outcome[r], out) IN
  /\ outcome' = [outcome EXCEPT ![r] = settled]
  /\ response' = [response EXCEPT ![r] =
                     IF settled # outcome[r] THEN AfterAwait(settled) ELSE @]
  /\ pc' = [pc EXCEPT ![r] = "done"]

\* POST /generate-pdf with a body whose html is falsy: 400, nothing else.
ReceiveInvalid(r, b) ==
  /\ Arrives(r)
  /\ Rejects(b.html)
  /\ body' = [body EXCEPT ![r] = b]
  /\ response' = [response EXCEPT ![r] = BadRequest]
  /\ pc' = [pc EXCEPT ![r] = "done"]
  /\ UNCHANGED <<backend, stylesFile, now, tempDirExists, files, invoked, rendered,
                 chunks, stream, headerPath, timer, outcome, health, browsers, browser,
                 finallyWith, composeVars>>

\* --------------------------------------------- the wkhtmltopdf backend
\* if (logoUrl)
HasLogoUnlessUndefined(o) == o.logoUrl # Undefined
HasLogo(o) == Truthy(o.logoUrl)

\* setTimeout(..., 10000) follows the write of the header file at once.
ScheduledTimerNever(written) == "none"
ScheduledTimer(written) == IF written THEN "pending" ELSE "none"

\* The stream's 'error' listener: reject(error), which the catch of
\* generatePdf wraps; cs is the chunks array at that time.
OnStreamErrorResolvePartial(cs, e) == Resolved(Concat(cs))
OnStreamError(cs, e) == Rejected(Wrap(e), e)

WkStages == {"none", "compose", "mkdir", "write", "spawn"}

\* POST /generate-pdf with truthy html, wkhtmltopdf backend: the handler and
\* the synchronous part of generatePdf, up to the await of the stream promise.
\* failAt is the statement that throws (none: the call suspends on the stream):
\*   compose  reading or compiling the template, reading styles.css (53-81)
\*   mkdir    fs.mkdirSync (123)      write  fs.writeFileSync (127)
\*   spawn    wkhtmltopdf(fullHtml, wkhtmlOptions) (144)
ReceiveWk(r, b, failAt, e) ==
  LET o == HandlerOptions(b)
      logo == HasLogo(o)
      inHeader == logo /\ failAt # "compose"
      path == HeaderPathAt(now)
      written == inHeader /\ failAt \notin {"mkdir", "write"}
      options == IF logo THEN WithHeader(WkhtmlOptions(o), path) ELSE WkhtmlOptions(o)
  IN
  /\ backend = "wkhtmltopdf"
  /\ Arrives(r)
  /\ ~Rejects(b.html)
  /\ failAt = "mkdir" => inHeader /\ ~tempDirExists
  /\ failAt = "write" => inHeader
  /\ body' = [body EXCEPT ![r] = b]
  /\ invoked' = [invoked EXCEPT ![r] = @ + 1]
  /\ tempDirExists' = (tempDirExists \/ (inHeader /\ failAt # "mkdir"))
  /\ files' = IF written THEN WriteFile(files, path, HeaderHtml(o)) ELSE files
  /\ headerPath' = [headerPath EXCEPT ![r] = IF written THEN <<path>> ELSE <<>>]
  /\ timer' = [timer EXCEPT ![r] = ScheduledTimer(written)]
  /\ stream' = [stream EXCEPT ![r] = IF failAt = "none" THEN "open" ELSE "none"]
  /\ rendered' = [rendered EXCEPT ![r] =
                    IF failAt \in {"none", "spawn"}
                      THEN [fullHtml |-> <<TemplateFields(o, stylesFile)>>,
                            options |-> <<options>>]
                      ELSE NotRendered]
  /\ IF failAt = "none"
       THEN /\ pc' = [pc EXCEPT ![r] = "rendering"]
            /\ UNCHANGED <<outcome, response>>
       ELSE Settle(r, Rejected(Wrap(e), e))
  /\ UNCHANGED <<backend, stylesFile, now, chunks, health, browsers, browser,
                 finallyWith, composeVars>>

\* stream.on('data'): chunks.push(chunk), while the renderer writes output.
StreamData(r) ==
  /\ stream[r] = "open"
  /\ Len(chunks[r]) < MaxChunks
  /\ chunks' = [chunks EXCEPT ![r] = Append(@, Chunk(Len(@) + 1))]
  /\ UNCHANGED <<backend, stylesFile, now, tempDirExists, files, pc, body, invoked,
                 rendered, stream, headerPath, timer, outcome, response, health,
                 browsers, browser, finallyWith, composeVars>>

\* stream.on('end'): resolve(Buffer.concat(chunks)); if that settles the
\* promise the handler sends the PDF. 'end' can follow an 'error'.
StreamEnd(r) ==
  /\ stream[r] \in {"open", "errored"}
  /\ stream' = [stream EXCEPT ![r] = IF @ = "open" THEN "ended" ELSE "closed"]
  /\ Settle(r, Resolved(Concat(chunks[r])))
  /\ UNCHANGED <<backend, stylesFile, now, tempDirExists, files, body, invoked,
                 rendered, chunks, headerPath, timer, health, browsers, browser,
                 finallyWith, composeVars>>

\* stream.on('error'): reject(error); the catch of generatePdf wraps it.
\* The renderer can report an error (a non-zero exit) after its output ended.
StreamError(r, e) ==
  /\ stream[r] \in {"open", "ended"}
  /\ stream' = [stream EXCEPT ![r] = IF @ = "open" THEN "errored" ELSE "closed"]
  /\ Settle(r, OnStreamError(chunks[r], e))
  /\ UNCHANGED <<backend, stylesFile, now, tempDirExists, files, body, invoked,
                 rendered, chunks, headerPath, timer, health, browsers, browser,
                 finallyWith, composeVars>>

\* The setTimeout callback, 10 s after the header file was written.
CleanupTimer(r) ==
  /\ timer[r] = "pending"
  /\ now >= headerPath[r][1] + CleanupDelay
  /\ files' = UnlinkIfExists(files, headerPath[r][1])
  /\ timer' = [timer EXCEPT ![r] = "fired"]
  /\ UNCHANGED <<backend, stylesFile, now, tempDirExists, pc, body, invoked,
                 rendered, chunks, stream, headerPath, outcome, response, health, browsers,
                 browser, finallyWith, composeVars>>

\* Time passes: by a millisecond, or by the cleanup delay. Only the
\* wkhtmltopdf backend reads the clock (Date.now, setTimeout), so the clock
\* is left alone when the other backend is deployed; MaxMs and MaxDelays cap
\* the steps of each size.
Tick(d) ==
  /\ backend = "wkhtmltopdf"
  /\ d = 1 => now % CleanupDelay < MaxMs
  /\ d = CleanupDelay => now \div CleanupDelay < MaxDelays
  /\ now' = now + d
  /\ UNCHANGED <<backend, stylesFile, tempDirExists, files, pc, body, invoked,
                 rendered, chunks, stream, headerPath, timer, outcome, response, health,
                 browsers, browser, finallyWith, composeVars>>

\* The delay of request r's timer elapses while the process keeps running:
\* the clock reaches the time the timer is due.
TimerElapses(r) ==
  /\ timer[r] = "pending"
  /\ now < headerPath[r][1] + CleanupDelay
  /\ now' = headerPath[r][1] + CleanupDelay
  /\ UNCHANGED <<backend, stylesFile, tempDirExists, files, pc, body, invoked,
                 rendered, chunks, stream, headerPath, timer, outcome, response, health,
                 browsers, browser, finallyWith, composeVars>>

\* GET /health
HealthDependsOnRenders == 
  IF \E r \in Requests : response[r].status = 500
    THEN [HealthPayload EXCEPT !.status = 503]
    ELSE HealthPayload
HealthResponse == HealthPayload

Health ==
  /\ health' = HealthResponse
  /\ UNCHANGED <<backend, stylesFile, now, tempDirExists, files, pc, body, invoked,
                 rendered, chunks, stream, headerPath, timer, outcome, response, browsers,
                 browser, finallyWith, composeVars>>


\* ------------------------------------------------ the Puppeteer backend
\* A browser process: who launched it, who called a method of it, who called
\* close() on it and how often, how that close() settled (no, resolved,
\* rejected), and whether the process still runs.
NewBrowser(r) ==
  [state |-> "open", launchedBy |-> r, usedBy |-> {}, closedBy |-> {},
   closeCalls |-> 0, closeSettled |-> "no"]

\* browser = await puppeteer.launch(...): a new process for every call.
LaunchPooled(bs, r) ==
  IF \E h \in 1..Len(bs) : bs[h].state = "open"
    THEN [browsers |-> bs,
          handle |-> CHOOSE h \in 1..Len(bs) : bs[h].state = "open"]
    ELSE [browsers |-> Append(bs, NewBrowser(r)), handle |-> Len(bs) + 1]
Launch(bs, r) ==
  [browsers |-> Append(bs, NewBrowser(r)), handle |-> Len(bs) + 1]

\* A method call of request r on its handle h (newPage, and the page's
\* setContent and pdf, which run in that process).
Use(bs, h, r) == [bs EXCEPT ![h].usedBy = @ \cup {r}]

\* browser.close() is called.
CallClose(bs, h, r) ==
  [bs EXCEPT ![h].closeCalls = @ + 1, ![h].closedBy = @ \cup {r}]

\* finally { if (browser) ... }
ClosesNever(h, completion) == FALSE
ClosesOnSuccessOnly(h, completion) == h # 0 /\ completion.kind = "resolved"
Closes(h, completion) == h # 0

\* The try block completed with `completion` (a return or the catch's throw):
\* the finally block calls browser.close() and awaits it, or, with browser
\* still null, the call settles at once. finallyWith is the completion the
\* suspended finally block holds; it is Pending outside of it.
EnterFinally(r, completion) ==
  IF Closes(browser[r], completion)
    THEN /\ browsers' = CallClose(browsers, browser[r], r)
         /\ finallyWith' = [finallyWith EXCEPT ![r] = completion]
         /\ pc' = [pc EXCEPT ![r] = "closing"]
         /\ UNCHANGED <<outcome, response>>
    ELSE /\ Settle(r, completion)
         /\ UNCHANGED <<browsers, finallyWith>>

\* POST /generate-pdf with truthy html, Puppeteer backend: the handler calls
\* generatePdf, which calls puppeteer.launch and suspends.
ReceivePp(r, b) ==
  /\ backend = "puppeteer"
  /\ Arrives(r)
  /\ ~Rejects(b.html)
  /\ body' = [body EXCEPT ![r] = b]
  /\ invoked' = [invoked EXCEPT ![r] = @ + 1]
  /\ pc' = [pc EXCEPT ![r] = "launching"]
  /\ UNCHANGED <<backend, stylesFile, now, tempDirExists, files, rendered, chunks, stream,
                 headerPath, timer, outcome, response, health, browsers, browser,
                 finallyWith, composeVars>>

\* puppeteer.launch resolves; browser.newPage() is called.
LaunchOk(r) ==
  LET l == Launch(browsers, r) IN
  /\ pc[r] = "launching"
  /\ browser' = [browser EXCEPT ![r] = l.handle]
  /\ browsers' = Use(l.browsers, l.handle, r)
  /\ pc' = [pc EXCEPT ![r] = "newPage"]
  /\ UNCHANGED <<backend, stylesFile, now, tempDirExists, files, body, invoked,
                 rendered, chunks, stream, headerPath, timer, outcome, response, health,
                 finallyWith, composeVars>>

\* puppeteer.launch rejects: catch, then finally with browser null.
LaunchFail(r, e) ==
  /\ pc[r] = "launching"
  /\ EnterFinally(r, Rejected(Wrap(e), e))
  /\ UNCHANGED <<backend, stylesFile, now, tempDirExists, files, body, invoked,
                 rendered, chunks, stream, headerPath, timer, health, browser, composeVars>>

\* newPage resolves; the markup is composed and page.setContent is called.
NewPageOk(r) ==
  /\ pc[r] = "newPage"
  /\ rendered' = [rendered EXCEPT ![r] =
                    [fullHtml |-> <<PpFullHtml(HandlerOptions(body[r]), stylesFile)>>,
                     options |-> <<>>]]
  /\ browsers' = Use(browsers, browser[r], r)
  /\ pc' = [pc EXCEPT ![r] = "setContent"]
  /\ UNCHANGED <<backend, stylesFile, now, tempDirExists, files, body, invoked,
                 chunks, stream, headerPath, timer, outcome, response, health, browser,
                 finallyWith, composeVars>>

\* setContent resolves; page.pdf is called with the options.
SetContentOk(r) ==
  /\ pc[r] = "setContent"
  /\ rendered' = [rendered EXCEPT ![r].options = <<PdfOptions(HandlerOptions(body[r]))>>]
  /\ browsers' = Use(browsers, browser[r], r)
  /\ pc' = [pc EXCEPT ![r] = "pdf"]
  /\ UNCHANGED <<backend, stylesFile, now, tempDirExists, files, body, invoked,
                 chunks, stream, headerPath, timer, outcome, response, health, browser,
                 finallyWith, composeVars>>

\* page.pdf resolves with n chunks of output: return Buffer.from(pdfBuffer),
\* then finally.
PdfOk(r, n) ==
  /\ pc[r] = "pdf"
  /\ EnterFinally(r, Resolved(PdfBytes(n)))
  /\ UNCHANGED <<backend, stylesFile, now, tempDirExists, files, body, invoked,
                 rendered, chunks, stream, headerPath, timer, health, browser, composeVars>>

\* newPage, setContent or pdf rejects: catch, then finally.
PageFail(r, e) ==
  /\ pc[r] \in {"newPage", "setContent", "pdf"}
  /\ EnterFinally(r, Rejected(Wrap(e), e))
  /\ UNCHANGED <<backend, stylesFile, now, tempDirExists, files, body, invoked,
                 rendered, chunks, stream, headerPath, timer, health, browser, composeVars>>

\* browser.close() resolves: the process is gone and the call completes as
\* the try block did.
CloseOk(r) ==
  /\ pc[r] = "closing"
  /\ browsers' = [browsers EXCEPT ![browser[r]].state = "closed",
                                  ![browser[r]].closeSettled = "resolved"]
  /\ Settle(r, finallyWith[r])
  /\ finallyWith' = [finallyWith EXCEPT ![r] = Pending]
  /\ UNCHANGED <<backend, stylesFile, now, tempDirExists, files, body, invoked,
                 rendered, chunks, stream, headerPath, timer, health, browser, composeVars>>

\* browser.close() rejects with e: the throw of the finally block replaces the
\* completion of the try block, and the process may or may not have ended.
CloseFail(r, e, after) ==
  /\ pc[r] = "closing"
  /\ browsers' = [browsers EXCEPT ![browser[r]].state = after,
                                  ![browser[r]].closeSettled = "rejected"]
  /\ Settle(r, Rejected(e, e))
  /\ finallyWith' = [finallyWith EXCEPT ![r] = Pending]
  /\ UNCHANGED <<backend, stylesFile, now, tempDirExists, files, body, invoked,
                 rendered, chunks, stream, headerPath, timer, health, browser, composeVars>>

\* ------------------------------------------------------- the service
\* What the service does whichever backend is deployed.
CommonNext ==
  \/ \E r \in Requests, b \in Bodies : ReceiveInvalid(r, b)
  \/ Health

\* The steps of the wkhtmltopdf backend, the only code that reads the clock.
WkNext ==
  \/ \E r \in Requests, b \in Bodies : ReceiveWk(r, b, "none", NoError)
  \/ \E r \in Requests, b \in Bodies, f \in WkStages \ {"none"} :
       \E e \in ThrownAt(f) : ReceiveWk(r, b, f, e)
  \/ \E r \in Requests : StreamData(r)
  \/ \E r \in Requests : StreamEnd(r)
  \/ \E r \in Requests, e \in ThrownAt("stream") : StreamError(r, e)
  \/ \E r \in Requests : CleanupTimer(r)
  \/ \E d \in {1, CleanupDelay} : Tick(d)

\* The steps of the Puppeteer backend.
PpNext ==
  \/ \E r \in Requests, b \in Bodies : ReceivePp(r, b)
  \/ \E r \in Requests : LaunchOk(r)
  \/ \E r \in Requests, e \in ThrownAt("launch") : LaunchFail(r, e)
  \/ \E r \in Requests : NewPageOk(r)
  \/ \E r \in Requests : SetContentOk(r)
  \/ \E r \in Requests, n \in 0..MaxChunks : PdfOk(r, n)
  \/ \E r \in Requests : \E e \in ThrownAt(pc[r]) : PageFail(r, e)
  \/ \E r \in Requests : CloseOk(r)
  \/ \E r \in Requests, e \in ThrownAt("close"), after \in {"open", "closed"} :
       CloseFail(r, e, after)

Next == CommonNext \/ WkNext \/ PpNext

\* The service with either backend deployed.
Spec == Init /\ [][Next]_vars

\* The service as index.ts deploys it, with the wkhtmltopdf backend.
InitWk == Init /\ backend = "wkhtmltopdf"
SpecWk == InitWk /\ [][CommonNext \/ WkNext]_vars

\* The same service in a process that keeps running: the clock reaches the
\* time every pending timer is due, and Node's event loop runs the callback of
\* a timer that is due.
NextWkFair == CommonNext \/ WkNext \/ \E r \in Requests : TimerElapses(r)
SpecWkFair ==
  /\ InitWk
  /\ [][NextWkFair]_vars
  /\ \A r \in Requests : WF_vars(TimerElapses(r)) /\ WF_vars(CleanupTimer(r))

\* The service with the import swapped to the Puppeteer backend.
InitPp == Init /\ backend = "puppeteer"
SpecPp == InitPp /\ [][CommonNext \/ PpNext]_vars


\* ------------------------------------------ composition, call by call
\* The options generatePdf can be called with: every field of
\* PdfGenerationOptions, with the values the handler passes through unchecked.
ComposeCss == {Undefined, Null, "", "body{font-size:20px}"}
ComposeFormats == {Undefined, "A4", "Letter"}
ComposeTops == {<<>>, <<100>>, <<DefaultTop>>, <<LogoTopWk>>, <<LogoTopPp>>, <<500>>}
ComposeMargins == {<<>>} \cup {<<[DefaultMargin EXCEPT !.top = t]>> : t \in ComposeTops}
ComposeLogoUrls == {Undefined, Null, "", "https://example.com/logo.png"}
KnownPositions == {"LEFT", "CENTER", "RIGHT", "FULL_WIDTH"}
ComposePositions == KnownPositions \cup {Undefined, Null, "TOP", "constructor"}

ComposeOptions ==
  [html : {"<p>y</p>"}, css : ComposeCss, format : ComposeFormats,
   margin : ComposeMargins, logoUrl : ComposeLogoUrls,
   logoPosition : ComposePositions]

\* What the wkhtmltopdf backend composes for options o: the template's
\* fields, the header document written to the temporary file (if any), the
\* renderer's options, whether the temp directory is asked for, and the timer
\* scheduled.
ComposedWk(o, styles) ==
  [by |-> "wkhtmltopdf",
   fullHtml |-> <<TemplateFields(o, styles)>>,
   header |-> IF HasLogo(o) THEN <<HeaderHtml(o)>> ELSE <<>>,
   options |-> <<IF HasLogo(o) THEN WithHeader(WkhtmlOptions(o), HeaderPathAt(now))
                 ELSE WkhtmlOptions(o)>>,
   tempDir |-> HasLogo(o),
   timer |-> ScheduledTimer(HasLogo(o))]

\* What the Puppeteer backend composes for options o.
ComposedPp(o, styles) ==
  [by |-> "puppeteer",
   fullHtml |-> <<PpFullHtml(o, styles)>>,
   header |-> LogoHtml(o),
   options |-> <<PdfOptions(o)>>,
   tempDir |-> FALSE,
   timer |-> "none"]

ComposedBy(b, o, styles) ==
  IF b = "wkhtmltopdf" THEN ComposedWk(o, styles) ELSE ComposedPp(o, styles)

InitCompose ==
  /\ ServiceInit
  /\ opts \in ComposeOptions
  /\ composed = NoComposed

\* generatePdf of pdf-generator.ts composes opts.
ComposeWk ==
  /\ backend = "wkhtmltopdf"
  /\ composed = NoComposed
  /\ composed' = ComposedWk(opts, stylesFile)
  /\ UNCHANGED <<serviceVars, opts>>

\* generatePdfWithPuppeteer composes opts.
ComposePp ==
  /\ backend = "puppeteer"
  /\ composed = NoComposed
  /\ composed' = ComposedPp(opts, stylesFile)
  /\ UNCHANGED <<serviceVars, opts>>

NextCompose == ComposeWk \/ ComposePp

SpecCompose == InitCompose /\ [][NextCompose]_vars


\* ================================================================ claims
Done(r) == pc[r] = "done"
Called(r) == invoked[r] > 0

\* C1: a POST /generate-pdf whose html is missing or empty is answered 400
\* {error: "HTML is required"}, and generatePdf is never invoked for it.
C1_MissingHtmlIs400 ==
  \A r \in Requests :
    (pc[r] # "idle" /\ body[r].html \in {Undefined, ""}) =>
      /\ Done(r)
      /\ response[r] = BadRequest
      /\ invoked[r] = 0
      /\ rendered[r] = NotRendered
      /\ outcome[r] = Pending
      /\ browser[r] = 0 /\ headerPath[r] = <<>>

C1_Witness ==
  /\ \E r \in Requests : body[r].html = "" /\ response[r].status = 400
  /\ \E r \in Requests : body[r].html = Undefined /\ response[r].status = 400

\* C2: Puppeteer backend: once a generatePdf call has returned or thrown, the
\* browser it launched has had close() called exactly once (and is gone when
\* that close() resolved); a call whose launch failed called close() on
\* nothing.
C2_BrowserClosedOnce ==
  /\ \A h \in 1..Len(browsers) : browsers[h].closeCalls <= 1
  /\ \A r \in Requests :
       (Done(r) /\ Called(r)) =>
         IF browser[r] # 0
           THEN /\ browsers[browser[r]].closeCalls = 1
                /\ browsers[browser[r]].closeSettled # "no"
                /\ browsers[browser[r]].closeSettled = "resolved" =>
                     browsers[browser[r]].state = "closed"
           ELSE \A h \in 1..Len(browsers) :
                  browsers[h].launchedBy # r /\ r \notin browsers[h].closedBy

C2_Witness ==
  /\ \E r \in Requests :
       /\ Done(r) /\ browser[r] # 0
       /\ outcome[r].cause = Err("setContent failed")
       /\ browsers[browser[r]].state = "closed"
       /\ browsers[browser[r]].closeCalls = 1
  /\ \E r \in Requests :
       Done(r) /\ browser[r] = 0 /\ outcome[r].cause = Err("launch failed")

\* Whether the rejection of request r is the one of browser.close().
CloseRejected(r) ==
  browser[r] # 0 /\ browsers[browser[r]].closeSettled = "rejected"

\* C3 as stated: when generatePdf throws for a request with non-empty html,
\* the response is 500 {error: "Failed to generate PDF", message: m} with m
\* the cause text of the failure (or "Unknown error"), and the backend was
\* invoked at most once.
C3_MessageIsCauseText ==
  \A r \in Requests :
    (Truthy(body[r].html) /\ outcome[r].kind = "rejected") =>
      /\ response[r].status = 500
      /\ response[r].json.error = "Failed to generate PDF"
      /\ response[r].json.message = ErrorText(outcome[r].cause)
      /\ invoked[r] <= 1

\* C3 as amended: m is the message of the Error generatePdf rejected with,
\* which is "Failed to generate PDF: " followed by the cause text (or by
\* "Unknown error" when the value thrown inside the backend is not an
\* Error); only when browser.close() itself rejects is m the text of that
\* rejection. The backend is invoked once, never again.
C3_MessageIsWrappedCause ==
  \A r \in Requests :
    /\ Truthy(body[r].html) => invoked[r] <= 1
    /\ (Truthy(body[r].html) /\ outcome[r].kind = "rejected") =>
         /\ Done(r)
         /\ invoked[r] = 1
         /\ response[r].status = 500
         /\ response[r].contentType = "application/json"
         /\ response[r].json.error = "Failed to generate PDF"
         /\ response[r].bytes = <<>>
         /\ response[r].json.message =
              IF CloseRejected(r)
                THEN ErrorText(outcome[r].cause)
                ELSE "Failed to generate PDF: " \o ErrorText(outcome[r].cause)

C3_Witness ==
  /\ \E r \in Requests :
       /\ outcome[r].kind = "rejected" /\ outcome[r].cause = NonError
       /\ response[r].json.message = "Failed to generate PDF: Unknown error"
  /\ \E r \in Requests :
       /\ outcome[r].kind = "rejected" /\ outcome[r].cause = Err("stream failed")
       /\ response[r].json.message = "Failed to generate PDF: stream failed"

\* C4 as stated: every request with non-empty html is answered with
\* Content-Type application/pdf and a Content-Length equal to the byte length
\* of the body, the buffer the backend returned.
C4_EveryValidRequestGetsPdf ==
  \A r \in Requests :
    (Done(r) /\ Truthy(body[r].html)) =>
      /\ response[r].contentType = "application/pdf"
      /\ response[r].contentLength = <<Len(response[r].bytes)>>
      /\ response[r].bytes = outcome[r].bytes

\* C4 as amended: every request with non-empty html whose generatePdf call
\* resolves is answered 200 with Content-Type application/pdf and a
\* Content-Length equal to the byte length of the body, which is the buffer
\* the backend returned (for wkhtmltopdf, the chunks received, concatenated).
C4_ResolvedRequestGetsPdf ==
  \A r \in Requests :
    (Truthy(body[r].html) /\ outcome[r].kind = "resolved") =>
      /\ Done(r)
      /\ response[r].status = 200
      /\ response[r].contentType = "application/pdf"
      /\ response[r].contentLength = <<Len(response[r].bytes)>>
      /\ response[r].bytes = outcome[r].bytes
      /\ backend = "wkhtmltopdf" =>
           /\ Len(response[r].bytes) = (Len(chunks[r]) * (Len(chunks[r]) + 1)) \div 2
           /\ \A k \in 1..Len(chunks[r]) : chunks[r][k] = Chunk(k)

C4_Witness ==
  /\ \E r \in Requests :
       /\ backend = "wkhtmltopdf" /\ response[r].status = 200
       /\ response[r].bytes = <<1, 2, 2>> /\ response[r].contentLength = <<3>>
  /\ \E r \in Requests :
       response[r].status = 200 /\ response[r].bytes = <<>>


\* The options that differ from o only in having no logoUrl.
WithoutLogo(o) == [o EXCEPT !.logoUrl = Undefined]

\* The options that differ from o only in logoPosition being LEFT.
WithLeft(o) == [o EXCEPT !.logoPosition = "LEFT"]

HasComposed == composed # NoComposed
TopOf(c) == c.options[1].marginTop

\* The fixed top margin a backend uses when there is a logo.
LogoTop(b) == IF b = "wkhtmltopdf" THEN LogoTopWk ELSE LogoTopPp

\* C5 as stated: for generatePdf calls that differ only in whether logoUrl is
\* present, whatever the margin option, the top margin given to the renderer
\* with the logo is strictly larger than the one given without it.
C5_LogoTopLargerForAnyMargin ==
  (HasComposed /\ Truthy(opts.logoUrl)
     /\ TopOf(ComposedBy(composed.by, WithoutLogo(opts), stylesFile)) # <<>>) =>
    TopOf(composed)[1] >
      TopOf(ComposedBy(composed.by, WithoutLogo(opts), stylesFile))[1]

\* C5 as amended: the top margin given to the renderer with a logo is the
\* fixed 3cm (wkhtmltopdf) or 4.23cm (Puppeteer) and without a logo it is
\* margin.top; it is strictly larger with the logo exactly when margin.top is
\* below that fixed value, as it is for the default margin and for the margin
\* the handler passes (2.12cm).
C5_LogoTopLargerBelowFixed ==
  HasComposed =>
    LET without == TopOf(ComposedBy(composed.by, WithoutLogo(opts), stylesFile)) IN
    /\ without = MarginOf(opts).top
    /\ ~Truthy(opts.logoUrl) => TopOf(composed) = without
    /\ Truthy(opts.logoUrl) =>
         /\ TopOf(composed) = <<LogoTop(composed.by)>>
         /\ without # <<>> =>
              (TopOf(composed)[1] > without[1] <=> without[1] < LogoTop(composed.by))
         /\ opts.margin \in {<<>>, <<DefaultMargin>>} =>
              TopOf(composed)[1] > without[1]

C5_Witness ==
  /\ HasComposed /\ composed.by = "wkhtmltopdf"
  /\ Truthy(opts.logoUrl) /\ opts.margin = <<DefaultMargin>>
  /\ TopOf(composed) = <<300>>
  /\ TopOf(ComposedWk(WithoutLogo(opts), stylesFile)) = <<212>>

\* The alignment and logo width declared for a logoPosition.
DeclaredAlign(p) ==
  CASE p = "LEFT" -> "left" [] p = "CENTER" -> "center"
    [] p = "RIGHT" -> "right" [] p = "FULL_WIDTH" -> "center"
DeclaredWidth(p) == IF p = "FULL_WIDTH" THEN "100%" ELSE "120px"

\* C6: with a logoUrl, for each of the four logoPosition values the header of
\* the composed markup has the declared alignment and width (LEFT, CENTER,
\* RIGHT: left, center, right at 120px; FULL_WIDTH: center at 100%), in the
\* wkhtmltopdf backend the handler calls and in the Puppeteer backend.
C6_HeaderAsDeclared ==
  (HasComposed /\ Truthy(opts.logoUrl) /\ LogoPositionOf(opts) \in KnownPositions) =>
    LET p == LogoPositionOf(opts)
        h == composed.header[1]
    IN IF composed.by = "wkhtmltopdf"
         THEN /\ h.textAlign = DeclaredAlign(p)
              /\ h.imgWidth = DeclaredWidth(p)
              /\ composed.fullHtml[1].logoPosition = DeclaredAlign(p)
         ELSE /\ h.alignStyle = "text-align: " \o DeclaredAlign(p) \o ";"
              /\ h.logoWidth = DeclaredWidth(p)

\* C7: with a logoPosition outside LEFT, CENTER, RIGHT, FULL_WIDTH, the
\* composed markup, header and render options are those composed for
\* logoPosition LEFT, all other inputs equal, in both backends.
C7_UnknownPositionIsLeft ==
  (HasComposed /\ LogoPositionOf(opts) \notin KnownPositions) =>
    composed = ComposedBy(composed.by, WithLeft(opts), stylesFile)

\* C8: whatever requests came before (rejected ones, failed renders, cleanup
\* timers that fired), GET /health answers 200 {status: "ok", service:
\* "pdf-service"}.
C8_HealthFixed == health # NoHealth => health = HealthPayload

C8_Witness ==
  /\ health = HealthPayload
  /\ \E r \in Requests : response[r].status = 500
  /\ \E r \in Requests : response[r].status = 400
  /\ \E r \in Requests : timer[r] = "fired"

\* C9: wkhtmltopdf backend: two generatePdf calls with a logoUrl that are in
\* flight together, or whose header files are on disk together, wrote
\* distinct temporary header paths.
C9_HeaderPathsDistinct ==
  \A r1, r2 \in Requests :
    (/\ r1 # r2
     /\ headerPath[r1] # <<>> /\ headerPath[r2] # <<>>
     /\ \/ pc[r1] = "rendering" /\ pc[r2] = "rendering"
        \/ timer[r1] = "pending" /\ timer[r2] = "pending") =>
      headerPath[r1] # headerPath[r2]

\* C10: Puppeteer backend: every call launches its own browser process, and
\* a browser process is used and closed by the call that launched it only; no
\* two calls hold the same handle.
C10_BrowserOwnedByOneCall ==
  /\ \A r1, r2 \in Requests :
       (r1 # r2 /\ browser[r1] # 0) => browser[r1] # browser[r2]
  /\ \A h \in 1..Len(browsers) :
       /\ browser[browsers[h].launchedBy] = h
       /\ browsers[h].usedBy \subseteq {browsers[h].launchedBy}
       /\ browsers[h].closedBy \subseteq {browsers[h].launchedBy}
  /\ \A r \in Requests :
       /\ pc[r] \in {"newPage", "setContent", "pdf", "closing"} => browser[r] # 0
       /\ browser[r] # 0 =>
            /\ browser[r] \in 1..Len(browsers)
            /\ browsers[browser[r]].launchedBy = r

C10_Witness ==
  \E r1, r2 \in Requests :
    /\ r1 # r2 /\ pc[r1] = "pdf" /\ pc[r2] = "closing"
    /\ browser[r1] # 0 /\ browser[r2] # 0 /\ browser[r1] # browser[r2]
    /\ browsers[browser[r1]].state = "open"
    /\ browsers[browser[r2]].closedBy = {r2}


\* C11 (as stated; the close-failure path violates it): with the Puppeteer
\* backend, a call whose launch, newPage, content load or print failed with
\* cause m settles with the error "Failed to generate PDF: m", also when the
\* browser.close() of the finally block fails afterwards.
C11_FailureStaysWrapped ==
  [][\A r \in Requests :
       /\ (pc[r] = "launching" /\ pc'[r] = "done")
            => outcome'[r].error = Wrap(outcome'[r].cause)
       /\ (pc[r] = "closing" /\ finallyWith[r].kind = "rejected" /\ pc'[r] = "done")
            => outcome'[r] = finallyWith[r]]_vars


\* C12: with the Puppeteer backend, a request whose call launched a browser is
\* answered (200 or 500) only after browser.close() was called on that browser
\* and has settled; no response is sent while the close is pending, and the
\* process is gone when the close resolved.
C12_ClosedBeforeResponse ==
  \A r \in Requests :
    /\ (pc[r] \in {"launching", "newPage", "setContent", "pdf", "closing"})
         => response[r] = NoResponse
    /\ (backend = "puppeteer" /\ response[r] # NoResponse /\ browser[r] # 0) =>
         LET b == browsers[browser[r]] IN
         /\ r \in b.closedBy
         /\ b.closeSettled \in {"resolved", "rejected"}
         /\ b.closeSettled = "resolved" => b.state = "closed"

\* One request answered 200 and one answered 500 after a print failure, each
\* with its browser closed.
C12_Witness ==
  /\ backend = "puppeteer"
  /\ \E r \in Requests :
       /\ response[r].status = 200 /\ browser[r] # 0
       /\ browsers[browser[r]].state = "closed"
  /\ \E r \in Requests :
       /\ response[r].status = 500 /\ outcome[r].cause = Err("pdf failed")
       /\ browsers[browser[r]].closeSettled = "resolved"
       /\ browsers[browser[r]].state = "closed"


C14_StylesheetIsDefaultThenCaller ==
  HasComposed =>
    LET default == IF stylesFile = <<>> THEN "" ELSE stylesFile[1]
        caller == IF opts.css \in {Undefined, Null, ""} THEN "" ELSE opts.css
    IN /\ composed.fullHtml # <<>>
       /\ composed.fullHtml[1].css = <<default, "\n", caller>>

\* No styles.css and no caller css: the stylesheet is a lone newline.
C14_Witness ==
  /\ HasComposed /\ stylesFile = <<>> /\ opts.css = Undefined
  /\ composed.fullHtml[1].css = <<"", "\n", "">>


\* C15 (as stated; the unwrapped close failure of C11 violates it): the
\* backends are interchangeable behind the handler. Whichever backend is
\* deployed, a call that produced bytes B is answered 200 with B, a call that
\* failed with cause m is answered 500 with the message of the wrapped cause,
\* and every failure is rejected as Error "Failed to generate PDF: <cause>".
C15_BackendsInterchangeable ==
  \A r \in Requests :
    /\ outcome[r].kind = "resolved" => response[r] = PdfResponse(outcome[r].bytes)
    /\ outcome[r].kind = "rejected" =>
         /\ outcome[r].error = Wrap(outcome[r].cause)
         /\ response[r] = ErrorResponse(Wrap(outcome[r].cause))


\* C16: a call whose logoUrl is undefined, null or the empty string produces
\* nothing logo-related. The Puppeteer backend puts no header block into the
\* markup; the wkhtmltopdf backend writes no header file, asks for no temp
\* directory, schedules no deletion timer and sets neither headerHtml nor
\* headerSpacing; and the top margin is the margin option's top, unchanged.
C16_NoLogoNoHeader ==
  (HasComposed /\ opts.logoUrl \in {Undefined, Null, ""}) =>
    /\ composed.header = <<>>
    /\ composed.tempDir = FALSE
    /\ composed.timer = "none"
    /\ composed.options[1].marginTop =
         (IF opts.margin = <<>> THEN <<DefaultTop>> ELSE opts.margin[1].top)
    /\ composed.by = "wkhtmltopdf" =>
         /\ composed.options[1].headerHtml = <<>>
         /\ composed.options[1].headerSpacing = <<>>
         /\ composed.fullHtml[1].logoUrl = Null
    /\ composed.by = "puppeteer" => composed.fullHtml[1].logo = <<>>

\* The wkhtmltopdf backend called with an empty logoUrl and a top margin of
\* its own.
C16_Witness ==
  /\ HasComposed /\ composed.by = "wkhtmltopdf"
  /\ opts.logoUrl = "" /\ opts.margin # <<>> /\ opts.margin[1].top = <<500>>
  /\ composed.options[1].marginTop = <<500>>
  /\ composed.header = <<>> /\ composed.timer = "none"


\* C17: the promise that collects the renderer's output settles once. When
\* 'end' comes first it resolves with the chunks concatenated in the order
\* they arrived; when 'error' comes first it rejects with that error; and an
\* 'end' or 'error' that comes later changes neither the settled call nor the
\* response sent for it.
C17_StreamPromiseSettlesOnce ==
  [][\A r \in Requests :
       /\ outcome[r].kind # "pending" =>
            outcome'[r] = outcome[r] /\ response'[r] = response[r]
       /\ (stream[r] = "open" /\ stream'[r] = "ended") =>
            LET n == Len(chunks[r])
                bytes == outcome'[r].bytes
            IN /\ outcome'[r].kind = "resolved"
               /\ Len(bytes) = (n * (n + 1)) \div 2
               /\ \A k \in 1..n :
                    SubSeq(bytes, (k * (k - 1)) \div 2 + 1, (k * (k + 1)) \div 2)
                      = chunks[r][k]
       /\ (stream[r] = "open" /\ stream'[r] = "errored") =>
            /\ outcome'[r].kind = "rejected"
            /\ outcome'[r].cause \in {Err("stream failed"), NonError}
            /\ outcome'[r].bytes = <<>>
       /\ (stream[r] \in {"ended", "errored"} /\ stream'[r] = "closed") =>
            outcome'[r] = outcome[r]]_vars

\* One stream ended with two chunks and reported an error afterwards, the
\* other failed first and ended afterwards.
C17_Witness ==
  \E r1, r2 \in Requests :
    /\ stream[r1] = "closed" /\ outcome[r1] = Resolved(<<1, 2, 2>>)
    /\ chunks[r1] = <<<<1>>, <<2, 2>>>>
    /\ stream[r2] = "closed" /\ outcome[r2].kind = "rejected"
    /\ outcome[r2].cause = Err("stream failed")


\* C18: every temporary header file on disk has a deletion timer pending for
\* its path, a timer fires no sooner than 10 s after its file was written, and
\* in a process that keeps running every header file written is eventually
\* removed, whether its render succeeds, fails or is still pending.
C18_HeaderFileEventuallyRemoved ==
  /\ [](\A f \in files :
          \E r \in Requests : headerPath[r] = <<f.path>> /\ timer[r] = "pending")
  /\ [](\A r \in Requests :
          /\ headerPath[r] # <<>> => timer[r] \in {"pending", "fired"}
          /\ timer[r] = "fired" =>
               /\ now >= headerPath[r][1] + CleanupDelay
               /\ ~Exists(files, headerPath[r][1]))
  /\ \A r \in Requests :
       (headerPath[r] # <<>>) ~> (timer[r] = "fired" /\ ~Exists(files, headerPath[r][1]))

\* The header file of a render that is still pending has been removed, and so
\* has the one of a render that failed.
C18_Witness ==
  \E r1, r2 \in Requests :
    /\ pc[r1] = "rendering" /\ timer[r1] = "fired"
    /\ outcome[r2].kind = "rejected" /\ timer[r2] = "fired"
    /\ files = {}


\* C19 (as stated; the unconditional 10 s timer violates it): while the
\* external render of a request is still running, the temporary header file
\* its options refer to is on disk, whatever the interleaving of the cleanup
\* timers with the renders in flight.
C19_HeaderFileOutlivesRender ==
  \A r \in Requests :
    (stream[r] = "open" /\ headerPath[r] # <<>>) => Exists(files, headerPath[r][1])


\* C20: every POST /generate-pdf is answered at most once, with the 400
\* validation error (generatePdf not called), the 200 PDF (only if generatePdf
\* resolved) or the 500 error envelope (generatePdf rejected); a response
\* once sent is never followed by another.
C20_AnsweredOnce ==
  /\ [](\A r \in Requests :
          \/ response[r] = NoResponse
          \/ response[r] = BadRequest /\ ~Called(r)
          \/ /\ response[r].status = 200
             /\ Called(r) /\ outcome[r].kind = "resolved"
             /\ response[r] = PdfResponse(outcome[r].bytes)
          \/ /\ response[r].status = 500
             /\ Called(r) /\ outcome[r].kind = "rejected"
             /\ response[r].json.error = "Failed to generate PDF"
             /\ response[r].bytes = <<>>)
  /\ [][\A r \in Requests :
          response[r] # NoResponse => response'[r] = response[r]]_vars

\* A request answered 200 whose renderer reported an error after its output
\* had ended, next to a request answered 400.
C20_Witness ==
  \E r1, r2 \in Requests :
    /\ stream[r1] = "closed" /\ response[r1].status = 200
    /\ response[r2] = BadRequest

====
